---------------------------- MODULE Spec2Model ----------------------------
(***************************************************************************)
(* Model of the LI.FI QA test runner (src/run-tests.js): the CLI dispatch  *)
(* of main(), TestRunner.checkPrerequisites, TestRunner.runTestSuite,      *)
(* TestRunner.runAllTests and the two report generators.                   *)
(*                                                                         *)
(* The external collaborators (the shell commands run by execSync, the     *)
(* file system under test-results/, the signal that may kill the process)  *)
(* are nondeterministic inputs of the actions.  Time (timestamps,          *)
(* durations) and process.env.NODE_ENV are not modelled: no control flow   *)
(* of run-tests.js reads them.                                             *)
(*                                                                         *)
(* Two further parts of the repository are modelled, each under its own    *)
(* specification: the retry helpers safeClick and makeRequestWithRetry     *)
(* (src/unnamed/part_004, SpecHelper) and the configuration module         *)
(* (src/tests/config/test-config.js, SpecConfig).  The runner uses neither *)
(* of them, so each specification holds the variables of the others fixed. *)
(***************************************************************************)
EXTENDS Integers, Sequences, FiniteSets, TLC

VARIABLES
  args,              \* process.argv.slice(2)
  pc,                \* position of the process in main()
  results,           \* runner.results (this.results)
  criticalFailures,  \* local of runAllTests
  totalFailures,     \* local of runAllTests
  invoked,           \* history: commands of the category processes started
  finished,          \* history: the processes that ended, and how
  delays,            \* history: number of inter-suite delays that elapsed
  prereq,            \* what checkPrerequisites observed
  console,           \* what has been printed
  child,             \* command of the category process execSync is blocked on
  artifact,          \* content of test-results/summary-report.json
  writes,            \* history: number of completed writeFileSync calls
  exitCode,          \* exit status of the process, Running until it ends
  \* one call of a retry helper (src/unnamed/part_004)
  helper,            \* which helper is called
  retries,           \* its `retries` argument
  attempt,           \* its loop index i
  hpc,               \* position of the call
  issued,            \* history: outcome of each request / click issued
  waits,             \* history: the timeouts awaited
  completion,        \* how the call completed
  \* the configuration module (src/tests/config/test-config.js)
  testConfig,        \* the fields of the exported TestConfig that are assigned
  processEnv,        \* process.env.TEST_ENV || process.env.NODE_ENV
  calls              \* history: the calls made and what they returned

runnerVars == <<args, pc, results, criticalFailures, totalFailures, invoked,
                finished, delays, prereq, console, child, artifact, writes, exitCode>>

helperVars == <<helper, retries, attempt, hpc, issued, waits, completion>>

configVars == <<testConfig, processEnv, calls>>

vars == <<runnerVars, helperVars, configVars>>

---------------------------------------------------------------------------
(* Bounds and input domains *)

MaxArgs == 2

Flags == {"--help", "-h", "--check-prereq", "--suite", "--quick"}

\* suite names given on the command line (a subset of the help text's list)
ArgNames == {"smoke", "api", "accessibility"}

Tokens == Flags \cup ArgNames

ArgLists == UNION {[1..n -> Tokens] : n \in 0..MaxArgs}

\* outcomes of one execSync of a category command
Outcomes == {"exit0", "nonzero", "timeout", "spawnerr"}

\* exit status of the process
Running == [ended |-> FALSE]
Exited(code) == [ended |-> TRUE, by |-> "exit", code |-> code]
Killed == [ended |-> TRUE, by |-> "signal"]

Undefined == "undefined"
NoChild == [tag |-> "none", reporter |-> "none"]

---------------------------------------------------------------------------
(* JavaScript array helpers, 0-based as in the source *)

Includes(s, x) == \E i \in 1..Len(s) : s[i] = x

\* Array.prototype.indexOf: first index, -1 when absent
IndexOf(s, x) ==
  IF Includes(s, x)
    THEN (CHOOSE i \in 1..Len(s) : s[i] = x /\ \A j \in 1..(i-1) : s[j] # x) - 1
    ELSE -1

\* s[i] of JavaScript: undefined outside the array
At(s, i) == IF i >= 0 /\ i < Len(s) THEN s[i + 1] ELSE Undefined

\* truthiness of an argument string (every token is a non-empty string)
Truthy(v) == v # Undefined /\ v # ""

IsSuccess(s) == s.success
\* mutant: a failure is counted only when the suite is critical
IsFailureCriticalOnly(s) == ~s.success /\ s.critical

IsFailure(s) == ~s.success
IsCriticalFailure(s) == ~s.success /\ s.critical

\* suites.filter(...).length
PassedCount(suites) == Len(SelectSeq(suites, IsSuccess))
FailedCount(suites) == Len(SelectSeq(suites, IsFailure))
CriticalFailedCount(suites) == Len(SelectSeq(suites, IsCriticalFailure))

---------------------------------------------------------------------------
(* The fixed category list of runAllTests *)

Command(tag, reporter) == [tag |-> tag, reporter |-> reporter]

testSuites ==
  << [name |-> "Smoke Tests",         command |-> Command("smoke", "json"),       critical |-> TRUE],
     [name |-> "API Tests",           command |-> Command("api", "json"),         critical |-> TRUE],
     [name |-> "E2E Tests",           command |-> Command("e2e", "json"),         critical |-> FALSE],
     [name |-> "Performance Tests",   command |-> Command("performance", "json"), critical |-> FALSE],
     [name |-> "Accessibility Tests", command |-> Command("a11y", "json"),        critical |-> FALSE],
     [name |-> "Security Tests",      command |-> Command("security", "json"),    critical |-> FALSE] >>

---------------------------------------------------------------------------
(* TestRunner.runTestSuite: the value returned for an outcome of execSync. *)
(* A zero exit within the timeout returns normally; every other outcome    *)
(* throws inside execSync and is caught.  error.stdout is absent when the  *)
(* process could not be spawned.                                           *)

\* mutant: only a non-zero exit status or a spawn error counts as a failure
runTestSuiteTimeoutSucceeds(outcome) ==
  IF outcome \in {"exit0", "timeout"}
    THEN [success |-> TRUE, output |-> "stdout"]
    ELSE [success |-> FALSE,
          output |-> IF outcome = "spawnerr" THEN Undefined ELSE "stdout"]

runTestSuite(outcome) ==
  IF outcome = "exit0"
    THEN [success |-> TRUE, output |-> "stdout"]
    ELSE [success |-> FALSE,
          output |-> IF outcome = "spawnerr" THEN Undefined ELSE "stdout"]

---------------------------------------------------------------------------
(* main(): which branch the arguments select *)

WantsHelp(a) == Includes(a, "--help") \/ Includes(a, "-h")

WantsCheckPrereq(a) == Includes(a, "--check-prereq")

\* the names the usage text lists under "Available test suites"
AvailableSuites == {"smoke", "api", "e2e", "performance", "accessibility", "security"}

suiteIndex(a) == IndexOf(a, "--suite")

\* mutant: the argument after --suite is not tested
HasSuiteNameIndexOnly(a) == suiteIndex(a) # -1

HasSuiteName(a) == suiteIndex(a) # -1 /\ Truthy(At(a, suiteIndex(a) + 1))

suiteName(a) == At(a, suiteIndex(a) + 1)

WantsQuick(a) == Includes(a, "--quick")

\* mutant: --check-prereq is tested before --help
ModeCheckPrereqFirst(a) ==
  IF WantsCheckPrereq(a) THEN "check-prereq"
  ELSE IF WantsHelp(a) THEN "help"
  ELSE IF HasSuiteName(a) THEN "suite"
  ELSE IF WantsQuick(a) THEN "quick"
  ELSE "full"

\* mutant: --quick is tested before --suite
ModeQuickFirst(a) ==
  IF WantsHelp(a) THEN "help"
  ELSE IF WantsCheckPrereq(a) THEN "check-prereq"
  ELSE IF WantsQuick(a) THEN "quick"
  ELSE IF HasSuiteName(a) THEN "suite"
  ELSE "full"

Mode(a) ==
  IF WantsHelp(a) THEN "help"
  ELSE IF WantsCheckPrereq(a) THEN "check-prereq"
  ELSE IF HasSuiteName(a) THEN "suite"
  ELSE IF WantsQuick(a) THEN "quick"
  ELSE "full"

---------------------------------------------------------------------------
(* Reports *)

NoSummary == [printed |-> FALSE]

\* mutant: the total is tested before the critical count
ClassificationTotalFirst(cf, tf) ==
  IF tf > 0 THEN "non-critical-failure"
  ELSE IF cf > 0 THEN "critical-failure"
  ELSE "all-pass"

Classification(cf, tf) ==
  IF cf > 0 THEN "critical-failure"
  ELSE IF tf > 0 THEN "non-critical-failure"
  ELSE "all-pass"

\* the lines generateSummaryReport prints
SummaryLines(r, cf, tf) ==
  [printed        |-> TRUE,
   executed       |-> Len(r.suites),
   successful     |-> PassedCount(r.suites),
   failed         |-> tf,
   critical       |-> cf,
   classification |-> Classification(cf, tf)]

\* the object generateDetailedReport serialises
Report(r) ==
  [results |-> r,
   summary |-> [totalSuites      |-> Len(r.suites),
                passedSuites     |-> PassedCount(r.suites),
                failedSuites     |-> FailedCount(r.suites),
                criticalFailures |-> CriticalFailedCount(r.suites)]]

NoArtifact == [kind |-> "absent"]
PreviousArtifact == [kind |-> "previous"]
Written(report) == [kind |-> "report", report |-> report]

---------------------------------------------------------------------------
(* Initial state: the process has started, the TestRunner is constructed *)

\* the retry helpers and the configuration module are not used by the runner
HelperIdle ==
  /\ helper = "none"
  /\ retries = 0
  /\ attempt = 0
  /\ hpc = "idle"
  /\ issued = << >>
  /\ waits = << >>
  /\ completion = [kind |-> "pending"]

ConfigIdle ==
  /\ testConfig = [kind |-> "unloaded"]
  /\ processEnv = [TEST_ENV |-> "unset", NODE_ENV |-> "unset"]
  /\ calls = << >>

Init ==
  /\ HelperIdle
  /\ ConfigIdle
  /\ args \in ArgLists
  /\ pc = "main"
  /\ results = [total |-> 0, passed |-> 0, failed |-> 0, skipped |-> 0, suites |-> << >>]
  /\ criticalFailures = 0
  /\ totalFailures = 0
  /\ invoked = << >>
  /\ finished = << >>
  /\ delays = 0
  /\ prereq = [tool |-> "unchecked", net |-> "unchecked"]
  /\ console = [usage |-> FALSE, summary |-> NoSummary, saved |-> FALSE, fatal |-> FALSE]
  /\ child = NoChild
  /\ artifact \in {NoArtifact, PreviousArtifact}
  /\ writes = 0
  /\ exitCode = Running

---------------------------------------------------------------------------
(* Process termination *)

\* main() returned and nothing is pending: the process ends with status 0
Return ==
  /\ pc' = "exited"
  /\ exitCode' = Exited(0)

\* process.exit(code)
Exit(code) ==
  /\ pc' = "exited"
  /\ exitCode' = Exited(code)

(* main(): --help / -h *)
Help ==
  /\ pc = "main"
  /\ Mode(args) = "help"
  /\ console' = [console EXCEPT !.usage = TRUE]
  /\ Return
  /\ UNCHANGED <<helperVars, configVars, args, delays, results, criticalFailures, totalFailures, invoked, finished,
                 prereq, child, artifact, writes>>

(* main(): enter the branch that starts with checkPrerequisites *)
EnterPrereq ==
  /\ pc = "main"
  /\ Mode(args) \in {"check-prereq", "full"}
  /\ pc' = "prereq"
  /\ UNCHANGED <<helperVars, configVars, args, delays, results, criticalFailures, totalFailures, invoked, finished,
                 prereq, console, child, artifact, writes, exitCode>>

\* where checkPrerequisites returns to
AfterPrereq(a) == IF Mode(a) = "check-prereq" THEN "return" ELSE "loop"

\* mutant: a missing tool is only logged
CheckPrerequisitesToolWarns ==
  /\ pc = "prereq"
  /\ \E toolOk \in BOOLEAN, browsersOk \in BOOLEAN, netOk \in BOOLEAN :
       /\ prereq' = [tool |-> IF toolOk THEN "ok" ELSE "missing",
                     net |-> IF netOk THEN "ok" ELSE "unreachable"]
       /\ IF AfterPrereq(args) = "return"
            THEN Return
            ELSE pc' = "loop" /\ UNCHANGED exitCode
  /\ UNCHANGED <<helperVars, configVars, args, delays, results, criticalFailures, totalFailures, invoked, finished,
                 console, child, artifact, writes>>

\* mutant: an unreachable network target ends the process like a missing tool
CheckPrerequisitesNetFatal ==
  /\ pc = "prereq"
  /\ \E toolOk \in BOOLEAN, browsersOk \in BOOLEAN, netOk \in BOOLEAN :
       IF ~toolOk
         THEN /\ prereq' = [prereq EXCEPT !.tool = "missing"]
              /\ Exit(1)
         ELSE /\ prereq' = [tool |-> "ok", net |-> IF netOk THEN "ok" ELSE "unreachable"]
              /\ IF ~netOk
                   THEN Exit(1)
                   ELSE IF AfterPrereq(args) = "return"
                          THEN Return
                          ELSE pc' = "loop" /\ UNCHANGED exitCode
  /\ UNCHANGED <<helperVars, configVars, args, delays, results, criticalFailures, totalFailures, invoked, finished,
                 console, child, artifact, writes>>

(* TestRunner.checkPrerequisites.  toolOk: `npx playwright --version`      *)
(* succeeded; browsersOk: the node_modules path exists (only changes the   *)
(* colour of a log line); netOk: `ping -c 1 li.fi` succeeded.              *)
CheckPrerequisites ==
  /\ pc = "prereq"
  /\ \E toolOk \in BOOLEAN, browsersOk \in BOOLEAN, netOk \in BOOLEAN :
       IF ~toolOk
         THEN /\ prereq' = [prereq EXCEPT !.tool = "missing"]
              /\ Exit(1)
         ELSE /\ prereq' = [tool |-> "ok", net |-> IF netOk THEN "ok" ELSE "unreachable"]
              /\ IF AfterPrereq(args) = "return"
                   THEN Return
                   ELSE pc' = "loop" /\ UNCHANGED exitCode
  /\ UNCHANGED <<helperVars, configVars, args, delays, results, criticalFailures, totalFailures, invoked, finished,
                 console, child, artifact, writes>>

---------------------------------------------------------------------------
(* runTestSuite, first half: execSync starts the command and blocks *)

Spawn(command) ==
  /\ child' = command
  /\ invoked' = Append(invoked, command)

(* runTestSuite, second half: the command ended with `outcome` *)
Reap(outcome) ==
  finished' = Append(finished, [command |-> child, ok |-> (outcome = "exit0")])

(* main(): --suite <name>.  The command carries the name as its tag and    *)
(* no --reporter option.                                                   *)
SuiteCommand(name) == Command(name, "default")

SuiteStart ==
  /\ pc = "main"
  /\ Mode(args) = "suite"
  /\ Spawn(SuiteCommand(suiteName(args)))
  /\ pc' = "suite"
  /\ UNCHANGED <<helperVars, configVars, args, delays, finished, results, criticalFailures, totalFailures, prereq,
                 console, artifact, writes, exitCode>>

\* the result of runTestSuite is dropped and main() returns
SuiteFinish ==
  /\ pc = "suite"
  /\ \E outcome \in Outcomes : Reap(outcome)
  /\ child' = NoChild
  /\ Return
  /\ UNCHANGED <<helperVars, configVars, args, delays, results, criticalFailures, totalFailures, invoked,
                 prereq, console, artifact, writes>>

(* main(): --quick.  Two runTestSuite calls, results dropped, no delay.   *)
QuickSmokeStart ==
  /\ pc = "main"
  /\ Mode(args) = "quick"
  /\ Spawn(Command("smoke", "default"))
  /\ pc' = "quick-smoke"
  /\ UNCHANGED <<helperVars, configVars, args, delays, finished, results, criticalFailures, totalFailures, prereq,
                 console, artifact, writes, exitCode>>

\* mutant: the api command is started only when the smoke command passed
QuickApiStartStopsOnFailure ==
  /\ pc = "quick-smoke"
  /\ \E outcome \in Outcomes :
       /\ Reap(outcome)
       /\ IF outcome = "exit0"
            THEN /\ Spawn(Command("api", "default"))
                 /\ pc' = "quick-api"
                 /\ UNCHANGED exitCode
            ELSE /\ child' = NoChild
                 /\ Return
                 /\ UNCHANGED invoked
  /\ UNCHANGED <<helperVars, configVars, args, delays, results, criticalFailures, totalFailures, prereq,
                 console, artifact, writes>>

\* the smoke command ends (any outcome) and the api command starts
QuickApiStart ==
  /\ pc = "quick-smoke"
  /\ \E outcome \in Outcomes : Reap(outcome)
  /\ Spawn(Command("api", "default"))
  /\ pc' = "quick-api"
  /\ UNCHANGED <<helperVars, configVars, args, delays, results, criticalFailures, totalFailures, prereq,
                 console, artifact, writes, exitCode>>

QuickFinish ==
  /\ pc = "quick-api"
  /\ \E outcome \in Outcomes : Reap(outcome)
  /\ child' = NoChild
  /\ Return
  /\ UNCHANGED <<helperVars, configVars, args, delays, results, criticalFailures, totalFailures, invoked,
                 prereq, console, artifact, writes>>

---------------------------------------------------------------------------
(* TestRunner.runAllTests *)

\* the suite the for-of loop is at: one result has been pushed per
\* completed iteration
NextSuite == testSuites[Len(results.suites) + 1]

\* mutant: the next command is started without waiting for the running one
LoopStartNoWait ==
  /\ pc = "loop"
  /\ Len(results.suites) < Len(testSuites)
  /\ Spawn(NextSuite.command)
  /\ UNCHANGED <<helperVars, configVars, args, delays, finished, pc, results, criticalFailures, totalFailures, prereq,
                 console, artifact, writes, exitCode>>

LoopStart ==
  /\ pc = "loop"
  /\ child = NoChild
  /\ Len(results.suites) < Len(testSuites)
  /\ Spawn(NextSuite.command)
  /\ UNCHANGED <<helperVars, configVars, args, delays, finished, pc, results, criticalFailures, totalFailures, prereq,
                 console, artifact, writes, exitCode>>

\* mutant: Array.prototype.unshift
Unshift(s, e) == <<e>> \o s

\* Array.prototype.push
Push(s, e) == Append(s, e)

\* the entry pushed on this.results.suites
SuiteEntry(suite, result) ==
  [name |-> suite.name, success |-> result.success,
   critical |-> suite.critical, output |-> result.output]

\* mutant: the total counts only the non-critical failures
CountTotalNonCritical(tf, suite, result) ==
  IF ~result.success /\ ~suite.critical THEN tf + 1 ELSE tf

\* the counters after one result
CountTotal(tf, suite, result) == IF ~result.success THEN tf + 1 ELSE tf

\* mutant: every failure counts as critical
CountCriticalAnyFailure(cf, suite, result) ==
  IF ~result.success THEN cf + 1 ELSE cf

CountCritical(cf, suite, result) ==
  IF ~result.success /\ suite.critical THEN cf + 1 ELSE cf

\* mutant: the loop stops at the first failure
AfterDelayShortCircuit(n) ==
  IF n < Len(testSuites) /\ totalFailures = 0 THEN "loop" ELSE "summary"

\* after the delay: the loop goes on while suites remain
AfterDelay(n) == IF n < Len(testSuites) THEN "loop" ELSE "summary"

LoopFinish ==
  /\ pc = "loop"
  /\ child # NoChild
  /\ \E outcome \in Outcomes :
       LET suite == NextSuite
           result == runTestSuite(outcome)
       IN /\ Reap(outcome)
          /\ results' = [results EXCEPT !.suites = Push(@, SuiteEntry(suite, result))]
          /\ totalFailures' = CountTotal(totalFailures, suite, result)
          /\ criticalFailures' = CountCritical(criticalFailures, suite, result)
  /\ child' = NoChild
  /\ pc' = "delay"
  /\ UNCHANGED <<helperVars, configVars, args, delays, invoked, prereq, console, artifact, writes, exitCode>>

\* setTimeout(resolve, 2000) fires
Delay ==
  /\ pc = "delay"
  /\ pc' = AfterDelay(Len(results.suites))
  /\ delays' = delays + 1
  /\ UNCHANGED <<helperVars, configVars, args, results, criticalFailures, totalFailures, invoked, finished,
                 prereq, console, child, artifact, writes, exitCode>>

GenerateSummaryReport ==
  /\ pc = "summary"
  /\ console' = [console EXCEPT !.summary = SummaryLines(results, criticalFailures, totalFailures)]
  /\ pc' = "report"
  /\ UNCHANGED <<helperVars, configVars, args, delays, results, criticalFailures, totalFailures, invoked, finished,
                 prereq, child, artifact, writes, exitCode>>

\* mutant: the run ends with status 1 when any suite failed
GenerateDetailedReportFailsOnAny ==
  /\ pc = "report"
  /\ \E fsOk \in BOOLEAN :
       IF fsOk
         THEN /\ artifact' = Written(Report(results))
              /\ writes' = writes + 1
              /\ console' = [console EXCEPT !.saved = TRUE]
              /\ IF totalFailures > 0 THEN Exit(1) ELSE Return
         ELSE /\ console' = [console EXCEPT !.fatal = TRUE]
              /\ Exit(1)
              /\ UNCHANGED <<artifact, writes>>
  /\ UNCHANGED <<helperVars, configVars, args, delays, results, criticalFailures, totalFailures, invoked, finished,
                 prereq, child>>

\* mutant: a failed write is logged and the run ends normally
GenerateDetailedReportSwallowsError ==
  /\ pc = "report"
  /\ \E fsOk \in BOOLEAN :
       IF fsOk
         THEN /\ artifact' = Written(Report(results))
              /\ writes' = writes + 1
              /\ console' = [console EXCEPT !.saved = TRUE]
              /\ Return
         ELSE /\ console' = [console EXCEPT !.fatal = TRUE]
              /\ Return
              /\ UNCHANGED <<artifact, writes>>
  /\ UNCHANGED <<helperVars, configVars, args, delays, results, criticalFailures, totalFailures, invoked, finished,
                 prereq, child>>

(* generateDetailedReport.  fsOk: mkdirSync and writeFileSync succeed.  A  *)
(* throw rejects main(), whose catch handler prints and calls              *)
(* process.exit(1); otherwise runAllTests and main() return.               *)
GenerateDetailedReport ==
  /\ pc = "report"
  /\ \E fsOk \in BOOLEAN :
       IF fsOk
         THEN /\ artifact' = Written(Report(results))
              /\ writes' = writes + 1
              /\ console' = [console EXCEPT !.saved = TRUE]
              /\ Return
         ELSE /\ console' = [console EXCEPT !.fatal = TRUE]
              /\ Exit(1)
              /\ UNCHANGED <<artifact, writes>>
  /\ UNCHANGED <<helperVars, configVars, args, delays, results, criticalFailures, totalFailures, invoked, finished,
                 prereq, child>>

---------------------------------------------------------------------------
\* mutant: a signal handler persists the report of the results so far
KillPersistsReport ==
  /\ pc \notin {"exited", "killed"}
  /\ pc' = "killed"
  /\ exitCode' = Killed
  /\ artifact' = Written(Report(results))
  /\ writes' = writes + 1
  /\ UNCHANGED <<helperVars, configVars, args, delays, results, criticalFailures, totalFailures, invoked, finished,
                 prereq, console, child>>

(* An external signal (SIGINT, SIGTERM, SIGKILL): run-tests.js installs no *)
(* signal handler, so the process ends where it stands.                    *)
Kill ==
  /\ pc \notin {"exited", "killed"}
  /\ pc' = "killed"
  /\ exitCode' = Killed
  /\ UNCHANGED <<helperVars, configVars, args, delays, results, criticalFailures, totalFailures, invoked, finished,
                 prereq, console, child, artifact, writes>>

Next ==
  \/ Help
  \/ EnterPrereq
  \/ CheckPrerequisites
  \/ SuiteStart
  \/ SuiteFinish
  \/ QuickSmokeStart
  \/ QuickApiStart
  \/ QuickFinish
  \/ LoopStart
  \/ LoopFinish
  \/ Delay
  \/ GenerateSummaryReport
  \/ GenerateDetailedReport
  \/ Kill

Spec == Init /\ [][Next]_vars

---------------------------------------------------------------------------
(* The retry helpers of the test support code: ApiTestHelpers.             *)
(* makeRequestWithRetry and TestHelpers.safeClick.  One call is followed   *)
(* from its entry to its completion; `issued` and `waits` are the          *)
(* histories of the requests / clicks made and of the timeouts awaited.    *)

MaxRetries == 4

\* the values of `retries` the helper is called with
RetryCounts == 0..MaxRetries

\* response.status() of a GET that resolved
Statuses == {200, 404, 500, 503}

\* the runner is not running while a helper or the configuration is used
RunnerIdle ==
  /\ args = << >>
  /\ pc = "idle"
  /\ results = [total |-> 0, passed |-> 0, failed |-> 0, skipped |-> 0, suites |-> << >>]
  /\ criticalFailures = 0
  /\ totalFailures = 0
  /\ invoked = << >>
  /\ finished = << >>
  /\ delays = 0
  /\ prereq = [tool |-> "unchecked", net |-> "unchecked"]
  /\ console = [usage |-> FALSE, summary |-> NoSummary, saved |-> FALSE, fatal |-> FALSE]
  /\ child = NoChild
  /\ artifact = NoArtifact
  /\ writes = 0
  /\ exitCode = Running

\* how an async call completes
Pending == [kind |-> "pending"]
Returned(v) == [kind |-> "returned", value |-> v]
Threw(e) == [kind |-> "threw", error |-> e]

\* the values returned and the errors thrown
Response(k, status) == [type |-> "response", attempt |-> k, status |-> status]
JsUndefined == [type |-> "undefined"]
Boolean(b) == [type |-> "boolean", b |-> b]
AttemptError(k) == [type |-> "error", from |-> "attempt", attempt |-> k]
WaitError(k) == [type |-> "error", from |-> "wait", attempt |-> k]

\* what one awaited request or click settles to
Resolved(status) == [kind |-> "response", status |-> status]
Clicked == [kind |-> "clicked"]
Rejected == [kind |-> "throw"]

\* mutant: a status of exactly 500 is returned to the caller
StatusAcceptedUpTo500(status) == status <= 500

\* response.status() < 500
StatusAccepted(status) == status < 500

\* i === retries - 1 in makeRequestWithRetry
RequestIsLast(k, n) == k = n - 1

\* mutant: the last attempt is taken to be the one after the loop
ClickIsLastOffByOne(k, n) == k = n

\* i === retries - 1 in safeClick
ClickIsLast(k, n) == k = n - 1

\* mutant: the backoff starts at zero
BackoffMsFromZero(k) == 1000 * k

\* the timeout awaited after attempt i of makeRequestWithRetry threw
BackoffMs(k) == 1000 * (k + 1)

\* the timeout awaited after a click of safeClick threw
ClickWaitMs == 1000

\* what each helper returns when its loop ends
Fallthrough(h) == IF h = "safeClick" THEN Boolean(FALSE) ELSE JsUndefined

InitHelper ==
  /\ RunnerIdle
  /\ ConfigIdle
  /\ helper \in {"makeRequestWithRetry", "safeClick"}
  /\ retries \in RetryCounts
  /\ attempt = 0
  /\ hpc = "call"
  /\ issued = << >>
  /\ waits = << >>
  /\ completion = Pending

\* the loop test i < retries with i = k, and the return after the loop
LoopHead(k) ==
  /\ attempt' = k
  /\ IF k < retries
       THEN hpc' = "attempt" /\ completion' = completion
       ELSE hpc' = "done" /\ completion' = Returned(Fallthrough(helper))

\* return / throw out of the helper
Complete(c) ==
  /\ hpc' = "done"
  /\ completion' = c
  /\ attempt' = attempt

\* the helper is called: let i = 0
Call ==
  /\ hpc = "call"
  /\ LoopHead(0)
  /\ UNCHANGED <<runnerVars, configVars, helper, retries, issued, waits>>

\* makeRequestWithRetry: the request of iteration i settles
MakeRequest ==
  /\ helper = "makeRequestWithRetry"
  /\ hpc = "attempt"
  /\ \E r \in {Resolved(st) : st \in Statuses} \cup {Rejected} :
       /\ issued' = Append(issued, r)
       /\ IF r.kind = "response"
            THEN /\ IF StatusAccepted(r.status)
                      THEN Complete(Returned(Response(attempt, r.status)))
                      ELSE LoopHead(attempt + 1)
                 /\ waits' = waits
            ELSE IF RequestIsLast(attempt, retries)
                   THEN Complete(Threw(AttemptError(attempt))) /\ waits' = waits
                   ELSE /\ waits' = Append(waits, [after |-> attempt, ms |-> BackoffMs(attempt)])
                        /\ hpc' = "wait"
                        /\ UNCHANGED <<attempt, completion>>
  /\ UNCHANGED <<runnerVars, configVars, helper, retries>>

\* makeRequestWithRetry: the setTimeout promise resolves
RequestBackoffElapsed ==
  /\ helper = "makeRequestWithRetry"
  /\ hpc = "wait"
  /\ LoopHead(attempt + 1)
  /\ UNCHANGED <<runnerVars, configVars, helper, retries, issued, waits>>

\* safeClick: the click of iteration i settles
Click ==
  /\ helper = "safeClick"
  /\ hpc = "attempt"
  /\ \E r \in {Clicked, Rejected} :
       /\ issued' = Append(issued, r)
       /\ IF r.kind = "clicked"
            THEN Complete(Returned(Boolean(TRUE))) /\ waits' = waits
            ELSE IF ClickIsLast(attempt, retries)
                   THEN Complete(Threw(AttemptError(attempt))) /\ waits' = waits
                   ELSE /\ waits' = Append(waits, [after |-> attempt, ms |-> ClickWaitMs])
                        /\ hpc' = "wait"
                        /\ UNCHANGED <<attempt, completion>>
  /\ UNCHANGED <<runnerVars, configVars, helper, retries>>

\* safeClick: page.waitForTimeout settles; it rejects when the page is gone
ClickWaitElapsed ==
  /\ helper = "safeClick"
  /\ hpc = "wait"
  /\ \E pageOpen \in BOOLEAN :
       IF pageOpen THEN LoopHead(attempt + 1)
                   ELSE Complete(Threw(WaitError(attempt)))
  /\ UNCHANGED <<runnerVars, configVars, helper, retries, issued, waits>>

NextHelper ==
  \/ Call
  \/ MakeRequest
  \/ RequestBackoffElapsed
  \/ Click
  \/ ClickWaitElapsed

SpecHelper == InitHelper /\ [][NextHelper]_vars

---------------------------------------------------------------------------
(* The configuration module: the exported TestConfig object,               *)
(* getEnvironmentConfig and ConfigUtils.  `testConfig` holds the nested    *)
(* objects of TestConfig that the module reads or assigns; the copy        *)
(* `{ ...TestConfig }` made by getEnvironmentConfig is shallow, so its     *)
(* timeouts, performance and ci are these same objects.  performance.cls   *)
(* (0.1) is never assigned nor read by the functions modelled and is left  *)
(* out.                                                                    *)

MaxCalls == 3

\* the object literal exported as TestConfig
TestConfig ==
  [environments |-> [production  |-> "https://li.fi",
                     staging     |-> "https://staging.li.fi",
                     development |-> "https://dev.li.fi",
                     local       |-> "http://localhost:3000"],
   timeouts     |-> [short |-> 5000, medium |-> 10000, long |-> 30000,
                     api |-> 15000, pageLoad |-> 30000],
   performance  |-> [pageLoadTime |-> 5000, apiResponseTime |-> 3000,
                     lcp |-> 2500, fid |-> 100],
   ci           |-> [retries |-> 2, workers |-> 1, timeout |-> 60000]]

\* the environment names passed to getEnvironmentConfig and getBaseUrl
EnvNames == {"development", "staging", "ci", "production", "local"}

\* the values of process.env.TEST_ENV and process.env.NODE_ENV
TestEnvValues == {"unset", "development", "ci"}
NodeEnvValues == {"unset", "staging", "production"}

\* the operation names passed to getTimeout; "navigation" is not a key of timeouts
Operations == {"medium", "pageLoad", "navigation"}

\* the metric names passed to getPerformanceThreshold
Metrics == {"pageLoadTime"}

\* a || b on environment variables
OrElse(a, b) == IF a # "unset" /\ a # "" THEN a ELSE b

\* ConfigUtils.getCurrentEnvironment
getCurrentEnvironment(e) == OrElse(e.TEST_ENV, OrElse(e.NODE_ENV, "production"))

\* getEnvironmentConfig: the nested objects after the switch; they are the
\* objects of TestConfig, and the object returned refers to them
getEnvironmentConfig(cfg, env) ==
  CASE env = "development" ->
         [cfg EXCEPT !.timeouts.pageLoad = 60000, !.performance.pageLoadTime = 10000]
    [] env = "staging" ->
         [cfg EXCEPT !.timeouts.pageLoad = 45000, !.performance.pageLoadTime = 7500]
    [] env = "ci" ->
         [cfg EXCEPT !.ci.retries = 3, !.timeouts.pageLoad = 45000,
                     !.performance.pageLoadTime = 8000]
    [] OTHER -> cfg

\* config.environments[env] || config.environments.production
BaseUrlOf(config, env) ==
  IF env \in DOMAIN config.environments
    THEN config.environments[env]
    ELSE config.environments.production

\* config.timeouts[operation] || config.timeouts.medium
TimeoutOf(config, operation) ==
  IF operation \in DOMAIN config.timeouts /\ config.timeouts[operation] # 0
    THEN config.timeouts[operation]
    ELSE config.timeouts.medium

InitConfig ==
  /\ RunnerIdle
  /\ HelperIdle
  /\ testConfig = TestConfig
  /\ processEnv \in [TEST_ENV : TestEnvValues, NODE_ENV : NodeEnvValues]
  /\ calls = << >>

\* a test calls getEnvironmentConfig(env)
GetEnvironmentConfig ==
  /\ Len(calls) < MaxCalls
  /\ \E env \in EnvNames :
       LET config == getEnvironmentConfig(testConfig, env)
       IN /\ testConfig' = config
          /\ calls' = Append(calls, [fn |-> "getEnvironmentConfig", env |-> env,
                                     config |-> config])
  /\ UNCHANGED <<runnerVars, helperVars, processEnv>>

\* a test calls ConfigUtils.getBaseUrl(env)
GetBaseUrl ==
  /\ Len(calls) < MaxCalls
  /\ \E env \in EnvNames :
       LET config == getEnvironmentConfig(testConfig, env)
       IN /\ testConfig' = config
          /\ calls' = Append(calls, [fn |-> "getBaseUrl", env |-> env,
                                     url |-> BaseUrlOf(config, env)])
  /\ UNCHANGED <<runnerVars, helperVars, processEnv>>

\* a test calls ConfigUtils.getTimeout(operation)
GetTimeout ==
  /\ Len(calls) < MaxCalls
  /\ \E operation \in Operations :
       LET env == getCurrentEnvironment(processEnv)
           config == getEnvironmentConfig(testConfig, env)
       IN /\ testConfig' = config
          /\ calls' = Append(calls, [fn |-> "getTimeout", operation |-> operation,
                                     env |-> env, ms |-> TimeoutOf(config, operation)])
  /\ UNCHANGED <<runnerVars, helperVars, processEnv>>

\* a test calls ConfigUtils.getPerformanceThreshold(metric)
GetPerformanceThreshold ==
  /\ Len(calls) < MaxCalls
  /\ \E metric \in Metrics :
       LET env == getCurrentEnvironment(processEnv)
           config == getEnvironmentConfig(testConfig, env)
       IN /\ testConfig' = config
          /\ calls' = Append(calls, [fn |-> "getPerformanceThreshold", metric |-> metric,
                                     env |-> env, threshold |-> config.performance[metric]])
  /\ UNCHANGED <<runnerVars, helperVars, processEnv>>

NextConfig ==
  \/ GetEnvironmentConfig
  \/ GetBaseUrl
  \/ GetTimeout
  \/ GetPerformanceThreshold

SpecConfig == InitConfig /\ [][NextConfig]_vars

---------------------------------------------------------------------------
(* Vocabulary of the properties, stated on the arguments and on the        *)
(* histories rather than on the runner's own bookkeeping                   *)

HelpArgs == \E i \in 1..Len(args) : args[i] \in {"--help", "-h"}

CheckPrereqArgs ==
  /\ ~HelpArgs
  /\ \E i \in 1..Len(args) : args[i] = "--check-prereq"

\* --suite followed by a name
SuiteArgs ==
  /\ ~HelpArgs
  /\ \A i \in 1..Len(args) : args[i] # "--check-prereq"
  /\ \E i \in 1..(Len(args) - 1) : args[i] = "--suite"

\* the arguments of a full run: no option that selects another mode
FullRunArgs ==
  /\ ~HelpArgs
  /\ \A i \in 1..Len(args) : args[i] \notin {"--check-prereq", "--quick"}
  /\ \A i \in 1..(Len(args) - 1) : args[i] # "--suite"

IsPrefix(s, t) == Len(s) <= Len(t) /\ \A i \in 1..Len(s) : s[i] = t[i]

\* the categories in the order of the specification, with their criticality
CategoryTags == <<"smoke", "api", "e2e", "performance", "a11y", "security">>
CategoryNames == <<"Smoke Tests", "API Tests", "E2E Tests", "Performance Tests",
                   "Accessibility Tests", "Security Tests">>
CriticalTags == {"smoke", "api"}

TagsOf(cmds) == [i \in 1..Len(cmds) |-> cmds[i].tag]

\* processes that ended without a zero exit status
FailedRuns == {i \in 1..Len(finished) : ~finished[i].ok}
CriticalFailedRuns == {i \in FailedRuns : finished[i].command.tag \in CriticalTags}

ExitedWith(code) == exitCode.ended /\ exitCode.by = "exit" /\ exitCode.code = code
ExitedNonZero == exitCode.ended /\ exitCode.by = "exit" /\ exitCode.code # 0

ArtifactWritten == artifact.kind = "report"

---------------------------------------------------------------------------
(* C1: in a full run, whenever at least one critical category (Smoke Tests *)
(* or API Tests) failed, the process ends with a non-zero exit status.     *)
C1_CriticalFailureExitsNonZero ==
  (FullRunArgs /\ pc = "exited" /\ CriticalFailedRuns # {}) => ExitedNonZero

(* C2: the classification printed by the summary of a full run is          *)
(* critical-failure if a critical category failed, else                    *)
(* non-critical-failure if any category failed, else all-pass; it is one   *)
(* of these three.                                                         *)
C2_ClassificationRule ==
  (FullRunArgs /\ console.summary.printed) =>
    /\ console.summary.classification \in
         {"all-pass", "non-critical-failure", "critical-failure"}
    /\ console.summary.classification = "critical-failure" <=> CriticalFailedRuns # {}
    /\ console.summary.classification = "non-critical-failure" <=>
         (CriticalFailedRuns = {} /\ FailedRuns # {})
    /\ console.summary.classification = "all-pass" <=> FailedRuns = {}

C2_Witness ==
  /\ FullRunArgs
  /\ console.summary.printed
  /\ console.summary.classification = "critical-failure"
  /\ Cardinality(FailedRuns) = 3
  /\ Cardinality(CriticalFailedRuns) = 1

(* C3: a full run whose prerequisites passed and whose report was written  *)
(* ends with exit status 0 when no critical category failed, whether or    *)
(* not a non-critical category failed.                                     *)
C3_NoCriticalFailureExitsZero ==
  (FullRunArgs /\ pc = "exited" /\ prereq.tool = "ok" /\ writes > 0
     /\ CriticalFailedRuns = {}) => ExitedWith(0)

C3_Witness ==
  /\ FullRunArgs /\ pc = "exited" /\ prereq.tool = "ok" /\ writes > 0
  /\ CriticalFailedRuns = {}
  /\ FailedRuns # {}
  /\ ExitedWith(0)

(* C4: a full run starts the six categories once each in the order Smoke,  *)
(* API, E2E, Performance, Accessibility, Security: what has been started   *)
(* is always a prefix of that list, a category starts only when every      *)
(* earlier one has ended, and the summary is reached only with all six     *)
(* started, whatever failed or timed out before.                           *)
C4_AllCategoriesInOrder ==
  FullRunArgs =>
    /\ IsPrefix(TagsOf(invoked), CategoryTags)
    /\ Len(finished) <= Len(invoked)
    /\ Len(invoked) <= Len(finished) + 1
    /\ (pc \in {"summary", "report"} \/ console.summary.printed) =>
         /\ TagsOf(invoked) = CategoryTags
         /\ Len(finished) = Len(CategoryTags)

C4_Witness ==
  /\ FullRunArgs /\ pc = "exited"
  /\ TagsOf(invoked) = CategoryTags
  /\ FailedRuns = {1, 3}

(* C5: in the persisted report of a full run, summary.totalSuites is the   *)
(* number of categories invoked and passedSuites + failedSuites is         *)
(* totalSuites.                                                            *)
C5_ReportTotals ==
  ArtifactWritten =>
    /\ artifact.report.summary.totalSuites = Len(invoked)
    /\ artifact.report.summary.passedSuites + artifact.report.summary.failedSuites
         = artifact.report.summary.totalSuites

C5_Witness ==
  /\ ArtifactWritten
  /\ artifact.report.summary.passedSuites = 4
  /\ artifact.report.summary.failedSuites = 2

(* C6: throughout a full run the critical-failure count is at most the     *)
(* failure count, which is at most the number of results recorded so far;  *)
(* the same holds of the counts of the persisted report.                   *)
C6_CountOrdering ==
  /\ criticalFailures <= totalFailures
  /\ totalFailures <= Len(results.suites)
  /\ ArtifactWritten =>
       /\ artifact.report.summary.criticalFailures <= artifact.report.summary.failedSuites
       /\ artifact.report.summary.failedSuites <= artifact.report.summary.totalSuites

C6_Witness ==
  /\ pc = "delay"
  /\ criticalFailures = 1
  /\ totalFailures = 2
  /\ Len(results.suites) = 3

(* C7: entry i of results.suites in the persisted report carries the name  *)
(* and criticality of the i-th invoked category and the success of that    *)
(* invocation.                                                             *)
C7_ArtifactOrder ==
  ArtifactWritten =>
    LET suites == artifact.report.results.suites
    IN /\ Len(suites) = Len(finished)
       /\ \A i \in 1..Len(suites) :
            /\ finished[i].command = invoked[i]
            /\ invoked[i].tag = CategoryTags[i]
            /\ suites[i].name = CategoryNames[i]
            /\ suites[i].critical = (CategoryTags[i] \in CriticalTags)
            /\ suites[i].success = finished[i].ok

C7_Witness ==
  /\ ArtifactWritten
  /\ Len(artifact.report.results.suites) = 6
  /\ FailedRuns = {2, 5}

(* C8: with --suite <name> (no --help, no --check-prereq) exactly one      *)
(* category process is run and the report file is never written, whether   *)
(* the process succeeds or fails.                                          *)
C8_SuiteRunsOneNoArtifact ==
  SuiteArgs =>
    /\ Len(invoked) <= 1
    /\ writes = 0
    /\ ~ArtifactWritten
    /\ ~console.summary.printed
    /\ pc = "exited" => (Len(invoked) = 1 /\ Len(finished) = 1)

C8_Witness ==
  /\ args = <<"--suite", "smoke">>
  /\ pc = "exited"
  /\ Len(finished) = 1 /\ ~finished[1].ok
  /\ artifact = PreviousArtifact

(* C9: with --check-prereq, when the browser-automation tool is not found  *)
(* the process exits non-zero and no category is invoked.                  *)
C9_CheckPrereqToolMissing ==
  (CheckPrereqArgs /\ prereq.tool = "missing") =>
    /\ ExitedNonZero
    /\ invoked = << >>

C9_Witness ==
  /\ CheckPrereqArgs /\ prereq.tool = "missing"
  /\ ExitedWith(1)

---------------------------------------------------------------------------
\* --quick with no option that is tested before it
QuickArgs ==
  /\ ~HelpArgs
  /\ \A i \in 1..Len(args) : args[i] # "--check-prereq"
  /\ \A i \in 1..(Len(args) - 1) : args[i] # "--suite"
  /\ \E i \in 1..Len(args) : args[i] = "--quick"

(* C11: with --quick (no --help, no --check-prereq, no --suite <name>)     *)
(* exactly two categories are invoked, smoke then api and no other, and    *)
(* api is invoked also when smoke failed.                                  *)
C11_QuickRunsSmokeThenApi ==
  QuickArgs =>
    /\ IsPrefix(TagsOf(invoked), <<"smoke", "api">>)
    /\ Len(invoked) = 2 => Len(finished) >= 1
    /\ pc = "exited" =>
         (TagsOf(invoked) = <<"smoke", "api">> /\ Len(finished) = 2)

C11_Witness ==
  /\ QuickArgs /\ pc = "exited"
  /\ TagsOf(invoked) = <<"smoke", "api">>
  /\ ~finished[1].ok
  /\ finished[2].ok

(* C12: with --help or -h anywhere in the arguments the usage is printed,  *)
(* no category is invoked, no prerequisite is checked, no report is        *)
(* written and the process exits 0, also when --check-prereq, --suite or   *)
(* --quick are present.                                                    *)
C12_HelpOnly ==
  HelpArgs =>
    /\ invoked = << >>
    /\ prereq = [tool |-> "unchecked", net |-> "unchecked"]
    /\ writes = 0
    /\ ~ArtifactWritten
    /\ pc \in {"main", "exited", "killed"}
    /\ pc = "exited" => (console.usage /\ ExitedWith(0))

C12_Witness ==
  /\ args = <<"--check-prereq", "-h">>
  /\ pc = "exited"
  /\ console.usage
  /\ ExitedWith(0)

C14_RunTestSuiteTotal ==
  /\ \A o \in Outcomes :
       /\ runTestSuite(o).success \in BOOLEAN
       /\ runTestSuite(o).success <=> (o = "exit0")
  /\ FullRunArgs =>
       /\ Len(results.suites) = Len(finished)
       /\ \A i \in 1..Len(finished) : results.suites[i].success = finished[i].ok
       /\ (pc = "exited" /\ finished # << >>) => Len(finished) = Len(CategoryTags)
  /\ (SuiteArgs \/ QuickArgs) => (pc = "exited" => ExitedWith(0))

C14_Witness ==
  /\ FullRunArgs /\ pc = "exited"
  /\ Len(results.suites) = 6
  /\ ~results.suites[1].success /\ results.suites[1].output = Undefined
  /\ ~results.suites[2].success /\ results.suites[2].output = "stdout"
  /\ results.suites[3].success

(* C15: if the process is terminated by a signal part-way through a full   *)
(* run, after at least one category has completed, the report covering the *)
(* categories completed so far is still finalized and persisted.           *)
C15_KilledRunPersistsReport ==
  (FullRunArgs /\ pc = "killed" /\ finished # << >>) =>
    /\ ArtifactWritten
    /\ Len(artifact.report.results.suites) = Len(finished)

(* C15 as the code has it: if the process is terminated by a signal after  *)
(* at least one and before all six categories of a full run have           *)
(* completed, no summary is printed and no report is persisted: the report *)
(* file keeps what it held before the run.                                 *)
C15_KilledRunLeavesNoReport ==
  (FullRunArgs /\ pc = "killed" /\ finished # << >>
     /\ Len(finished) < Len(CategoryTags)) =>
    /\ writes = 0
    /\ artifact \in {NoArtifact, PreviousArtifact}
    /\ ~console.summary.printed
    /\ ~console.saved

C15_Witness ==
  /\ FullRunArgs /\ pc = "killed"
  /\ Len(finished) = 3
  /\ Len(results.suites) = 3
  /\ artifact = PreviousArtifact

(* C16: when writing the report fails at finalize, the run is fatal: the   *)
(* error is reported on the console and the process exits non-zero, also   *)
(* when every category passed; the console summary has been printed before *)
(* the failure.                                                            *)
C16_WriteFailureIsFatal ==
  /\ console.fatal =>
       /\ ExitedNonZero
       /\ console.summary.printed
       /\ writes = 0
       /\ ~ArtifactWritten
       /\ ~console.saved
  /\ (FullRunArgs /\ pc = "exited" /\ console.summary.printed /\ writes = 0) =>
       (console.fatal /\ ExitedNonZero)

C16_Witness ==
  /\ console.fatal
  /\ Len(finished) = 6
  /\ FailedRuns = {}
  /\ ExitedWith(1)

(* C17: a full run that reaches the end of the category loop writes the    *)
(* report exactly once (unless the write fails), only after all six        *)
(* results are recorded, and the file then holds the results of this run   *)
(* alone, whatever it held before.                                         *)
C17_ReportWrittenOnceAfterLoop ==
  /\ writes <= 1
  /\ ArtifactWritten <=> writes = 1
  /\ ArtifactWritten =>
       /\ Len(finished) = Len(CategoryTags)
       /\ Len(results.suites) = Len(CategoryTags)
       /\ DOMAIN artifact = {"kind", "report"}
       /\ artifact.report.results.suites = results.suites
  /\ (FullRunArgs /\ pc = "exited" /\ console.summary.printed /\ ~console.fatal) =>
       writes = 1

C17_Witness ==
  /\ FullRunArgs /\ pc = "exited"
  /\ writes = 1
  /\ ArtifactWritten
  /\ FailedRuns = {6}

(* C18: in the single-category and quick modes (--suite smoke, --suite     *)
(* api, --quick) the failure of a critical category makes the process exit *)
(* non-zero.                                                               *)
C18_CriticalFailureExitsNonZeroOutsideFullRun ==
  ((SuiteArgs \/ QuickArgs) /\ pc = "exited" /\ CriticalFailedRuns # {}) =>
    ExitedNonZero

(* C19: at most one category process runs at any time: a category is       *)
(* started only when every earlier one has ended, and in a full run only   *)
(* when the result of every earlier one has been appended to the run list. *)
C19_OneProcessAtATime ==
  /\ Len(finished) <= Len(invoked)
  /\ Len(invoked) <= Len(finished) + 1
  /\ child # NoChild <=> Len(invoked) = Len(finished) + 1
  /\ child # NoChild => child = invoked[Len(invoked)]
  /\ \A i \in 1..Len(finished) : finished[i].command = invoked[i]
  /\ FullRunArgs => Len(invoked) <= Len(results.suites) + 1

C19_Witness ==
  /\ FullRunArgs
  /\ child = Command("performance", "json")
  /\ Len(invoked) = 4
  /\ Len(results.suites) = 3

(* C20: in every mode that invokes more than one category (the full run    *)
(* and --quick) a delay elapses between the end of one category invocation *)
(* and the start of the next.                                              *)
C20_DelayBetweenCategories ==
  Len(invoked) >= 2 => delays >= Len(invoked) - 1

---------------------------------------------------------------------------
\* the category of the full run that each listed suite name stands for
CategoryOfSuite ==
  [smoke |-> "Smoke Tests", api |-> "API Tests", e2e |-> "E2E Tests",
   performance |-> "Performance Tests", accessibility |-> "Accessibility Tests",
   security |-> "Security Tests"]

\* the name given after the first --suite
RequestedSuite ==
  LET k == CHOOSE k \in 1..(Len(args) - 1) :
             args[k] = "--suite" /\ \A j \in 1..(k - 1) : args[j] # "--suite"
  IN args[k + 1]

\* the tag the full run filters on for the category a listed name stands for
FullRunTag(name) ==
  LET k == CHOOSE k \in 1..Len(testSuites) : testSuites[k].name = CategoryOfSuite[name]
  IN testSuites[k].command.tag

(* C21: for every suite name the usage text lists, --suite <name> invokes  *)
(* the framework with the tag filter the full run uses for that category.  *)
(* Violated: --suite accessibility filters on @accessibility, the full run *)
(* (and the test file) on @a11y.                                           *)
C21_SuiteUsesFullRunTag ==
  (SuiteArgs /\ invoked # << >> /\ RequestedSuite \in AvailableSuites) =>
    invoked[1].tag = FullRunTag(RequestedSuite)

(* C22: in the persisted report of a full run, results.total,              *)
(* results.passed and results.failed are the number of categories invoked, *)
(* passed and failed.  Violated: the constructor sets them to 0 and        *)
(* nothing assigns them afterwards.                                        *)
C22_ResultsCountsMatch ==
  (FullRunArgs /\ ArtifactWritten) =>
    /\ artifact.report.results.total = Len(invoked)
    /\ artifact.report.results.passed = Len(finished) - Cardinality(FailedRuns)
    /\ artifact.report.results.failed = Cardinality(FailedRuns)

(* C23: in a full run the failed and critical-failure counts of the        *)
(* console summary (the counters kept in the loop) equal                   *)
(* summary.failedSuites and summary.criticalFailures of the persisted      *)
(* report (recomputed from the recorded results), whatever the outcomes.   *)
C23_ConsoleCountsMatchReport ==
  (FullRunArgs /\ ArtifactWritten) =>
    /\ console.summary.printed
    /\ console.summary.failed = artifact.report.summary.failedSuites
    /\ console.summary.critical = artifact.report.summary.criticalFailures

C23_Witness ==
  /\ FullRunArgs /\ ArtifactWritten
  /\ FailedRuns = {2, 4, 6}
  /\ console.summary.failed = 3
  /\ console.summary.critical = 1

\* --suite is the last argument and the only --suite, no --help, no --check-prereq
TrailingSuiteArgs ==
  /\ ~HelpArgs
  /\ \A k \in 1..Len(args) : args[k] # "--check-prereq"
  /\ Len(args) >= 1
  /\ args[Len(args)] = "--suite"
  /\ \A k \in 1..(Len(args) - 1) : args[k] # "--suite"

(* C24: when --suite is the last argument, with no name after it and       *)
(* without --help / --check-prereq, the selector is ignored: with --quick  *)
(* the run is the quick run (smoke then api, no prerequisite check, no     *)
(* report); otherwise the prerequisites are checked and the six categories *)
(* are run in order and the report is written.                             *)
C24_TrailingSuiteIgnored ==
  TrailingSuiteArgs =>
    IF \E k \in 1..Len(args) : args[k] = "--quick"
      THEN /\ IsPrefix(TagsOf(invoked), <<"smoke", "api">>)
           /\ prereq.tool = "unchecked"
           /\ writes = 0
           /\ pc = "exited" => TagsOf(invoked) = <<"smoke", "api">>
      ELSE /\ IsPrefix(TagsOf(invoked), CategoryTags)
           /\ invoked # << >> => prereq.tool = "ok"
           /\ pc \in {"loop", "delay", "summary", "report"} => prereq.tool = "ok"
           /\ ArtifactWritten => TagsOf(invoked) = CategoryTags
           /\ (pc = "exited" /\ ExitedWith(0)) => ArtifactWritten

C24_Witness ==
  /\ args = <<"--suite">>
  /\ pc = "exited"
  /\ prereq.tool = "ok"
  /\ TagsOf(invoked) = CategoryTags
  /\ ArtifactWritten

---------------------------------------------------------------------------
(* Vocabulary of the properties of the retry helpers.  Attempt i of the    *)
(* code (0-based) is entry i + 1 of `issued`.                              *)

IsRequestCall == helper = "makeRequestWithRetry"
IsClickCall == helper = "safeClick"

\* entry k of the history is a response with a status below 500
AcceptedAt(k) == issued[k].kind = "response" /\ issued[k].status < 500
ThrewAt(k) == issued[k].kind = "throw"

ReturnedResponse == completion.kind = "returned" /\ completion.value.type = "response"

(* C25: makeRequestWithRetry issues at most `retries` requests, returns    *)
(* the first response whose status is below 500 (the response of the       *)
(* request that produced it, and no other), and issues no request after    *)
(* such a response.                                                        *)
C25_ReturnsFirstAcceptedResponse ==
  IsRequestCall =>
    /\ Len(issued) <= retries
    /\ \A k \in 1..(Len(issued) - 1) : ~AcceptedAt(k)
    /\ (issued # << >> /\ AcceptedAt(Len(issued))) =>
         /\ ReturnedResponse
         /\ completion.value.attempt = Len(issued) - 1
         /\ completion.value.status = issued[Len(issued)].status
    /\ ReturnedResponse => (issued # << >> /\ AcceptedAt(Len(issued)))

C25_Witness ==
  /\ IsRequestCall /\ retries = 3
  /\ issued = <<[kind |-> "response", status |-> 503], [kind |-> "throw"],
                [kind |-> "response", status |-> 404]>>
  /\ ReturnedResponse
  /\ completion.value.attempt = 2

(* C26: in makeRequestWithRetry, when attempt i throws and i < retries-1   *)
(* the helper waits 1000*(i+1) ms, once, and does not complete before      *)
(* attempt i+1 is made; no other wait happens; when attempt retries-1      *)
(* throws, that error is thrown to the caller and no wait follows it.      *)
C26_BackoffThenRethrow ==
  IsRequestCall =>
    /\ \A w \in 1..Len(waits) :
         /\ waits[w].after < retries - 1
         /\ waits[w].after + 1 <= Len(issued)
         /\ ThrewAt(waits[w].after + 1)
         /\ waits[w].ms = 1000 * (waits[w].after + 1)
    /\ Len(waits) = Cardinality({k \in 1..Len(issued) : ThrewAt(k) /\ k < retries})
    /\ \A k \in 1..Len(issued) :
         (ThrewAt(k) /\ k < retries) =>
           /\ \E w \in 1..Len(waits) : waits[w].after = k - 1
           /\ hpc = "done" => Len(issued) > k
    /\ (retries >= 1 /\ Len(issued) = retries /\ ThrewAt(retries)) =>
         /\ completion = [kind |-> "threw",
                          error |-> [type |-> "error", from |-> "attempt",
                                     attempt |-> retries - 1]]
         /\ \A w \in 1..Len(waits) : waits[w].after # retries - 1

C26_Witness ==
  /\ IsRequestCall /\ retries = 3
  /\ issued = <<[kind |-> "throw"], [kind |-> "throw"], [kind |-> "throw"]>>
  /\ waits = <<[after |-> 0, ms |-> 1000], [after |-> 1, ms |-> 2000]>>
  /\ completion.kind = "threw"

(* C27: for retries >= 1 makeRequestWithRetry ends by returning a response *)
(* or by throwing.  Violated: when the last attempt answers with a status  *)
(* of 500 or more the loop ends and the helper returns undefined.          *)
C27_ResponseOrThrow ==
  (IsRequestCall /\ retries >= 1 /\ hpc = "done") =>
    (completion.kind = "threw" \/ ReturnedResponse)

(* C28: for retries >= 1 safeClick makes at most `retries` clicks, returns *)
(* true right after the first click that succeeds and clicks no more,      *)
(* waits between two failed clicks, throws the error of the last click     *)
(* when all `retries` clicks failed, and never returns false.              *)
C28_SafeClickTrueOrThrow ==
  (IsClickCall /\ retries >= 1) =>
    /\ Len(issued) <= retries
    /\ \A k \in 1..(Len(issued) - 1) : ThrewAt(k)
    /\ (issued # << >> /\ issued[Len(issued)].kind = "clicked") =>
         completion = [kind |-> "returned", value |-> [type |-> "boolean", b |-> TRUE]]
    /\ \A k \in 2..Len(issued) :
         /\ Len(waits) >= k - 1
         /\ waits[k - 1].after = k - 2
         /\ waits[k - 1].ms > 0
    /\ (Len(issued) = retries /\ ThrewAt(retries)) =>
         completion = [kind |-> "threw",
                       error |-> [type |-> "error", from |-> "attempt",
                                  attempt |-> retries - 1]]
    /\ completion # [kind |-> "returned", value |-> [type |-> "boolean", b |-> FALSE]]
    /\ hpc = "done" => completion.kind \in {"returned", "threw"}

C28_Witness ==
  /\ IsClickCall /\ retries = 3
  /\ issued = <<[kind |-> "throw"], [kind |-> "throw"], [kind |-> "throw"]>>
  /\ Len(waits) = 2
  /\ completion.kind = "threw"
  /\ completion.error.attempt = 2

---------------------------------------------------------------------------
(* C29: getEnvironmentConfig leaves the exported TestConfig unchanged:     *)
(* whatever calls came before, TestConfig keeps, and                       *)
(* getEnvironmentConfig('production') returns, timeouts.pageLoad = 30000,  *)
(* performance.pageLoadTime = 5000 and ci.retries = 2.  Violated: the      *)
(* overrides are assigned to the nested objects TestConfig refers to.      *)
C29_TestConfigUnchanged ==
  calls # << >> =>
    /\ testConfig.timeouts.pageLoad = 30000
    /\ testConfig.performance.pageLoadTime = 5000
    /\ testConfig.ci.retries = 2
    /\ \A k \in 1..Len(calls) :
         (calls[k].fn = "getEnvironmentConfig" /\ calls[k].env = "production") =>
           /\ calls[k].config.timeouts.pageLoad = 30000
           /\ calls[k].config.performance.pageLoadTime = 5000
           /\ calls[k].config.ci.retries = 2

(* C30: two getTimeout calls with the same operation and the same          *)
(* environment return the same value whatever was called in between, and   *)
(* an operation that is not a key of timeouts gets the medium timeout      *)
(* 10000.  Violated in its first half: with the production environment     *)
(* getTimeout('pageLoad') returns what the last override left.             *)
C30_GetTimeoutDeterministic ==
  /\ \A j, k \in 1..Len(calls) :
       (/\ calls[j].fn = "getTimeout" /\ calls[k].fn = "getTimeout"
        /\ calls[j].operation = calls[k].operation
        /\ calls[j].env = calls[k].env) => calls[j].ms = calls[k].ms
  /\ \A k \in 1..Len(calls) :
       (/\ calls[k].fn = "getTimeout"
        /\ calls[k].operation \notin {"short", "medium", "long", "api", "pageLoad"}) =>
         calls[k].ms = 10000

=============================================================================
